---- MODULE Spec2Model ----
(***************************************************************************)
(* Tick ingestion, one-minute aggregation and range query of the           *)
(* trading_test repository (trading_data.py, analysis_data.py, api.py).    *)
(*                                                                         *)
(* The three scripts share one SQLite file, trading_data.db, holding the   *)
(* tables TickPrices and OneMinBars.  save_to_db / on_new_msg are the same *)
(* in the three scripts, save_minute_bars / periodic_save are the same in  *)
(* analysis_data.py and api.py, get_minute_bars exists in api.py only.     *)
(*                                                                         *)
(* Encoding of values.  TLC cannot compare values of different types, so   *)
(* every numeric column holds an integer: Python None / SQL NULL is the    *)
(* integer None, a price delivered as text is the integer TextPrice, which *)
(* is larger than every numeric price exactly as SQLite orders TEXT after  *)
(* every number.  For the two text columns None is the string NoneStr.     *)
(* The nullable columns marketHours, changePercent, change and priceHint   *)
(* are written by save_to_db and read by no statement; they are left out.  *)
(***************************************************************************)
EXTENDS Integers, Sequences, FiniteSets, TLC

\* ------------------------------------------------------------------ bounds
MaxTicks == 3          \* rows the model lets TickPrices grow to
MaxBars == 4           \* rows the model lets OneMinBars grow to

\* ------------------------------------------------------ values and inputs
None == -1
NoneStr == "None"
TextPrice == 999

\* SQLite date functions read a bare number as a Julian day number and
\* return NULL outside 0 .. 5373484 (9999-12-31 12:00).
JulianDayMax == 5373484
\* Julian day number of 0001-01-01 12:00, the first day whose year
\* time.strptime accepts for %Y.
FirstStrptimeDay == 1721426
\* Julian day number of 1970-01-01 12:00.
UnixEpochDay == 2440588
SecondsPerDay == 86400
NoonSeconds == 43200
\* offset of the local time zone from UTC, in seconds (time.mktime is local)
LocalUtcOffset == 0

Tickers == {"CPALL.BK", "PTT.BK"}
Exchanges == {"SET", "NMS"}
\* 130 names a day of year -4712, 1700000000 is an epoch-seconds stamp (no
\* Julian day), 2440588 and 2440589 name 1970-01-01 and 1970-01-02.
Timestamps == {130, 1700000000, 2440588, 2440589}
Prices == {8, 10, 12}

BaseMsg ==
  [id |-> "CPALL.BK", exchange |-> "SET", price |-> 10,
   timestamp |-> 2440588, volume |-> 1, dayVolume |-> 2]

\* The feed messages: BaseMsg with at most one key changed or absent.
Msgs ==
  {[BaseMsg EXCEPT !.id = v] : v \in Tickers \cup {NoneStr}}
  \cup {[BaseMsg EXCEPT !.exchange = v] : v \in Exchanges \cup {NoneStr}}
  \cup {[BaseMsg EXCEPT !.price = v] : v \in Prices \cup {None, TextPrice}}
  \cup {[BaseMsg EXCEPT !.timestamp = v] : v \in Timestamps \cup {None}}
  \cup {[BaseMsg EXCEPT !.volume = None, !.dayVolume = None]}

VARIABLES
  module,           \* which script runs: "analysis_data" or "api"
  sqlHasFirstLast,  \* whether the linked SQLite resolves FIRST() and LAST()
  TickPrices,       \* the table, as the sequence of its rows in rowid order
  OneMinBars,       \* the table, as the sequence of its rows in rowid order
  thread,           \* periodic_save thread: "running" or the exception that ended it
  last,             \* outcome of the most recent handler (log line, response)
  cursor,           \* result set pending on the module-level cursor
  running,          \* save_minute_bars executions in progress
  agg,              \* position and locals of save_minute_bars on the periodic thread
  main,             \* position of the main thread: feed, between INSERT and commit, serving
  handler,          \* position and request of the Flask handler thread
  uncommitted       \* trailing rows of OneMinBars INSERTed and not yet committed

\* The variables only the statement-by-statement specification moves.
threads == <<cursor, running, agg, main, handler, uncommitted>>

vars ==
  <<module, sqlHasFirstLast, TickPrices, OneMinBars, thread, last, threads>>

\* A start_time / end_time parameter of the request as it arrives: absent,
\* given with a text that int() rejects, or given with the text of an integer.
Absent == [kind |-> "absent", value |-> 0]

Malformed == [kind |-> "malformed", value |-> 0]

IntArg(v) == [kind |-> "int", value |-> v]

\* A request that names no parameter at all.
NoReq == [ticker |-> NoneStr, start_time |-> Absent, end_time |-> Absent]

\* op: the handler; err: the exception it logged or raised; for a query the
\* request, the HTTP status and the rows of the body.
NoOut ==
  [op |-> "none", err |-> "none", req |-> NoReq, status |-> 0, rows |-> <<>>]

\* The cursor after an INSERT, after a statement that failed to prepare
\* and after fetchall(): the next fetchall() returns [].
NoResult == [kind |-> "none", rows |-> <<>>]

\* The periodic thread outside save_minute_bars.
AggIdle == [pc |-> "idle", tickers |-> <<>>, ticker |-> NoneStr, results |-> <<>>]

\* No request between its execute and its fetchall.
HandlerIdle == [pc |-> "idle", req |-> NoReq]

\* State after the module-level code ran on a fresh trading_data.db: both
\* tables exist and are empty (CREATE TABLE IF NOT EXISTS; api.py creates
\* OneMinBars only and finds TickPrices as trading_data.py or
\* analysis_data.py created it), the periodic thread has been started.
Init ==
  /\ module \in {"analysis_data", "api"}
  /\ sqlHasFirstLast \in BOOLEAN
  /\ TickPrices = <<>>
  /\ OneMinBars = <<>>
  /\ thread = "running"
  /\ last = NoOut
  /\ cursor = NoResult
  /\ running = 0
  /\ agg = AggIdle
  /\ main = "feed"
  /\ handler = HandlerIdle
  /\ uncommitted = 0

\* ------------------------------------------------------------- ingestion
\* The INSERT of save_to_db: the NOT NULL columns ticker, exchange, price,
\* timestamp reject None (sqlite3.IntegrityError); column types are
\* affinities only, so a value of another type is stored.
NotNullViolated(msg) ==
  \/ msg.id = NoneStr
  \/ msg.exchange = NoneStr
  \/ msg.price = None
  \/ msg.timestamp = None

TickRow(msg) ==
  [ticker |-> msg.id, exchange |-> msg.exchange, price |-> msg.price,
   timestamp |-> msg.timestamp, volume |-> msg.volume,
   dayVolume |-> msg.dayVolume]

\* Variant: the table rejects a row equal to a stored one (a uniqueness
\* constraint over the tick's columns), so a repeated tick is not stored.
save_to_db_Unique(msg) ==
  IF \/ NotNullViolated(msg)
     \/ \E i \in 1..Len(TickPrices) : TickPrices[i] = TickRow(msg)
  THEN /\ TickPrices' = TickPrices
       /\ last' = [NoOut EXCEPT !.op = "record", !.err = "IntegrityError"]
  ELSE /\ Len(TickPrices) < MaxTicks
       /\ TickPrices' = Append(TickPrices, TickRow(msg))
       /\ last' = [NoOut EXCEPT !.op = "record"]

save_to_db(msg) ==
  IF NotNullViolated(msg)
  THEN /\ TickPrices' = TickPrices
       /\ last' = [NoOut EXCEPT !.op = "record", !.err = "IntegrityError"]
  ELSE /\ Len(TickPrices) < MaxTicks
       /\ TickPrices' = Append(TickPrices, TickRow(msg))
       /\ last' = [NoOut EXCEPT !.op = "record"]

on_new_msg(msg) ==
  /\ save_to_db(msg)
  /\ UNCHANGED <<module, sqlHasFirstLast, OneMinBars, thread, threads>>

RecordTick == \E msg \in Msgs : on_new_msg(msg)

\* ----------------------------------------------------------- aggregation
\* SELECT DISTINCT ticker FROM TickPrices: the tickers in the order of their
\* first row (SQLite scans by rowid and skips the ones already seen).
RECURSIVE DistinctTickers(_, _)
DistinctTickers(rows, seen) ==
  IF rows = <<>> THEN <<>>
  ELSE IF Head(rows).ticker \in seen THEN DistinctTickers(Tail(rows), seen)
  ELSE <<Head(rows).ticker>>
       \o DistinctTickers(Tail(rows), seen \cup {Head(rows).ticker})

\* strftime('%Y-%m-%d %H:%M', timestamp): the number is read as a Julian day
\* number, so an integer n names noon of day n; the result is NULL when n is
\* no Julian day.  The text 'YYYY-MM-DD 12:00' is represented by the day
\* number it names (texts of 4-digit years sort as their days do, and the
\* texts of negative years sort before them, as smaller day numbers do).
strftime(timestamp) ==
  IF timestamp \in 0..JulianDayMax THEN timestamp ELSE None

\* time.strptime(minute, '%Y-%m-%d %H:%M'): None is no str (TypeError), a
\* text whose year is not 0001..9999 does not match %Y (ValueError).
strptimeError(minute) ==
  IF minute = None THEN "TypeError"
  ELSE IF minute < FirstStrptimeDay THEN "ValueError"
  ELSE "none"

\* int(time.mktime(time.strptime(minute, ...))): epoch seconds of noon, local
\* time, of the day the text names.
mktime(minute) ==
  SecondsPerDay * (minute - UnixEpochDay) + NoonSeconds - LocalUtcOffset

RECURSIVE SqlMin(_)
SqlMin(values) ==
  IF Len(values) = 1 THEN values[1]
  ELSE LET m == SqlMin(Tail(values))
       IN  IF Head(values) <= m THEN Head(values) ELSE m

RECURSIVE SqlMax(_)
SqlMax(values) ==
  IF Len(values) = 1 THEN values[1]
  ELSE LET m == SqlMax(Tail(values))
       IN  IF Head(values) >= m THEN Head(values) ELSE m

\* The aggregates FIRST and LAST (where the engine has them): the value of
\* the first and of the last row of the group in scan (rowid) order.
SqlFirst(values) == values[1]

SqlLast(values) == values[Len(values)]

\* SUM(x): NULLs are skipped; NULL when every x of the group is NULL.
RECURSIVE SumNonNull(_)
SumNonNull(values) ==
  IF values = <<>> THEN 0
  ELSE (IF Head(values) = None THEN 0 ELSE Head(values))
       + SumNonNull(Tail(values))

SqlSum(values) ==
  IF \A i \in 1..Len(values) : values[i] = None THEN None
  ELSE SumNonNull(values)

\* The rows of one group of the per-minute query: WHERE ticker = ?, grouped
\* by the strftime text.
GroupRows(rows, ticker, minute) ==
  LET InGroup(r) == r.ticker = ticker /\ strftime(r.timestamp) = minute
  IN  SelectSeq(rows, InGroup)

Column(rows, c) == [i \in 1..Len(rows) |-> rows[i][c]]

\* One row of OneMinBars as save_minute_bars inserts it for a result row.
BarRow(rows, ticker, minute) ==
  LET g == GroupRows(rows, ticker, minute)
  IN  [ticker |-> ticker, exchange |-> "SET",
       minPrice |-> SqlMin(Column(g, "price")),
       maxPrice |-> SqlMax(Column(g, "price")),
       firstPrice |-> SqlFirst(Column(g, "price")),
       lastPrice |-> SqlLast(Column(g, "price")),
       timestamp |-> mktime(minute),
       volume |-> SqlSum(Column(g, "volume")),
       dayVolume |-> SqlSum(Column(g, "dayVolume"))]

Minutes(rows, ticker) ==
  {strftime(rows[i].timestamp) : i \in {j \in 1..Len(rows) : rows[j].ticker = ticker}}

SetMin(S) == CHOOSE x \in S : \A y \in S : x <= y

\* The loop over the result rows of one ticker (GROUP BY returns them in
\* the order of the key, NULL first): convert, INSERT, commit; the first
\* conversion that raises ends the loop with the bars committed so far.
RECURSIVE InsertBars(_, _, _, _)
InsertBars(rows, ticker, minutes, bars) ==
  IF minutes = {} THEN [bars |-> bars, err |-> "none"]
  ELSE LET minute == SetMin(minutes)
       IN  IF strptimeError(minute) # "none"
           THEN [bars |-> bars, err |-> strptimeError(minute)]
           ELSE InsertBars(rows, ticker, minutes \ {minute},
                           Append(bars, BarRow(rows, ticker, minute)))

\* The loop over the tickers: the per-minute query raises
\* sqlite3.OperationalError (no such function: FIRST) unless the engine
\* resolves FIRST and LAST; an exception leaves save_minute_bars.
RECURSIVE ForTickers(_, _, _)
ForTickers(rows, tickers, bars) ==
  IF tickers = <<>> THEN [bars |-> bars, err |-> "none"]
  ELSE IF ~sqlHasFirstLast THEN [bars |-> bars, err |-> "OperationalError"]
  ELSE LET r == InsertBars(rows, Head(tickers),
                           Minutes(rows, Head(tickers)), bars)
       IN  IF r.err # "none" THEN r
           ELSE ForTickers(rows, Tail(tickers), r.bars)

\* save_minute_bars() on the periodic thread.  analysis_data.py opens the
\* connection on the main thread without check_same_thread=False, so the
\* first cursor.execute of the thread raises sqlite3.ProgrammingError.
save_minute_bars ==
  IF module = "analysis_data"
  THEN [bars |-> OneMinBars, err |-> "ProgrammingError"]
  ELSE ForTickers(TickPrices, DistinctTickers(TickPrices, {}), OneMinBars)

\* The readings of the wall clock (seconds) a run may take: half a minute
\* into the window of the bar of day 2440589, and the end of that window.
ClockTimes ==
  {mktime(UnixEpochDay + 1) + 30, mktime(UnixEpochDay + 1) + 60}

\* One turn of the loop of periodic_save; an exception of save_minute_bars
\* is caught nowhere and ends the thread.  save_minute_bars reads the clock
\* into current_time and uses the value nowhere.
periodic_save_at(current_time) ==
  /\ thread = "running"
  /\ LET r == save_minute_bars
     IN  /\ Len(r.bars) <= MaxBars
         /\ OneMinBars' = r.bars
         /\ thread' = IF r.err = "none" THEN "running" ELSE r.err
         /\ last' = [NoOut EXCEPT !.op = "aggregate", !.err = r.err]
  /\ UNCHANGED <<module, sqlHasFirstLast, TickPrices, threads>>

periodic_save == \E current_time \in ClockTimes : periodic_save_at(current_time)

\* The process is started again: the module-level code finds both tables,
\* with the committed rows, and starts a new periodic thread.
Restart ==
  /\ thread # "running"
  /\ thread' = "running"
  /\ last' = [NoOut EXCEPT !.op = "restart"]
  /\ UNCHANGED <<module, sqlHasFirstLast, TickPrices, OneMinBars, threads>>

\* ----------------------------------------------------------------- query
\* The seconds queried: 0, the stamps of the bars of day 2440588 and
\* 2440589, and one second after the first.
QueryTimes ==
  {0, mktime(UnixEpochDay), mktime(UnixEpochDay) + 1, mktime(UnixEpochDay + 1)}

\* The base request spans both bars of CPALL.BK.
BaseReq ==
  [ticker |-> "CPALL.BK", start_time |-> IntArg(mktime(UnixEpochDay)),
   end_time |-> IntArg(mktime(UnixEpochDay + 1))]

\* The requests: every pair of integer bounds for the base ticker, and the
\* base request with its ticker absent (NoneStr), empty or another symbol,
\* or with one bound absent or malformed.
Requests ==
  {[BaseReq EXCEPT !.start_time = IntArg(s), !.end_time = IntArg(e)] :
     s \in QueryTimes, e \in QueryTimes}
  \cup {[BaseReq EXCEPT !.ticker = t] : t \in {NoneStr, ""} \cup Tickers}
  \cup {[BaseReq EXCEPT !.start_time = a] : a \in {Absent, Malformed}}
  \cup {[BaseReq EXCEPT !.end_time = a] : a \in {Absent, Malformed}}

\* request.args.get(key, type=int): the integer, None when the key is
\* absent or int() raises ValueError.
ArgInt(raw) == IF raw.kind = "int" THEN raw.value ELSE None

\* Variant: the check forgets end_time.
MissingParameters_NoEndTime(ticker, start_time, end_time) ==
  \/ ticker = NoneStr \/ ticker = ""
  \/ start_time = None \/ start_time = 0

\* if not ticker or not start_time or not end_time: Python's truth value of
\* None, of the empty string and of the integer 0 is false.
MissingParameters(ticker, start_time, end_time) ==
  \/ ticker = NoneStr \/ ticker = ""
  \/ start_time = None \/ start_time = 0
  \/ end_time = None \/ end_time = 0

\* ORDER BY timestamp: rows of equal timestamp stay in scan (rowid) order.
InsertByTimestamp(sorted, r) ==
  LET k == Cardinality({i \in 1..Len(sorted) : sorted[i].timestamp <= r.timestamp})
  IN  SubSeq(sorted, 1, k) \o <<r>> \o SubSeq(sorted, k + 1, Len(sorted))

RECURSIVE OrderByTimestamp(_)
OrderByTimestamp(rows) ==
  IF rows = <<>> THEN <<>>
  ELSE InsertByTimestamp(OrderByTimestamp(SubSeq(rows, 1, Len(rows) - 1)),
                         rows[Len(rows)])

\* WHERE ticker = ? AND timestamp BETWEEN ? AND ?  (a comparison with NULL
\* selects nothing)
InRange(bar, ticker, start_time, end_time) ==
  /\ ticker # NoneStr /\ start_time # None /\ end_time # None
  /\ bar.ticker = ticker
  /\ start_time <= bar.timestamp
  /\ bar.timestamp <= end_time

\* The SELECT of get_minute_bars: eight columns, exchange is not among them.
SelectBars(bars, ticker, start_time, end_time) ==
  LET Hit(b) == InRange(b, ticker, start_time, end_time)
      rows == OrderByTimestamp(SelectSeq(bars, Hit))
  IN  [i \in 1..Len(rows) |->
         [ticker |-> rows[i].ticker, minPrice |-> rows[i].minPrice,
          maxPrice |-> rows[i].maxPrice, firstPrice |-> rows[i].firstPrice,
          lastPrice |-> rows[i].lastPrice, timestamp |-> rows[i].timestamp,
          volume |-> rows[i].volume, dayVolume |-> rows[i].dayVolume]]

Response(req) ==
  LET ticker == req.ticker
      start_time == ArgInt(req.start_time)
      end_time == ArgInt(req.end_time)
      rows == SelectBars(OneMinBars, ticker, start_time, end_time)
  IN  IF MissingParameters(ticker, start_time, end_time)
      THEN [NoOut EXCEPT !.op = "query", !.req = req, !.status = 400]
      ELSE IF rows = <<>>
      THEN [NoOut EXCEPT !.op = "query", !.req = req, !.status = 404]
      ELSE [NoOut EXCEPT !.op = "query", !.req = req, !.status = 200,
                         !.rows = rows]

\* Variant: the handler refreshes the bars (runs save_minute_bars) before
\* it answers.
get_minute_bars_Refreshing(req) ==
  /\ module = "api"
  /\ Len(save_minute_bars.bars) <= MaxBars
  /\ OneMinBars' = save_minute_bars.bars
  /\ last' = Response(req)
  /\ UNCHANGED <<module, sqlHasFirstLast, TickPrices, thread, threads>>

\* GET /api/one_min_bars, served by api.py only.
get_minute_bars(req) ==
  /\ module = "api"
  /\ last' = Response(req)
  /\ UNCHANGED <<module, sqlHasFirstLast, TickPrices, OneMinBars, thread, threads>>

Query == \E req \in Requests : get_minute_bars(req)

\* -------------------------------------------------------- specifications
\* The feed and the aggregator (analysis_data.py, api.py), every message.
Next == RecordTick \/ periodic_save \/ Restart

Spec == Init /\ [][Next]_vars

\* api.py with its endpoint; the feed delivers the messages that differ in
\* ticker and in day, and one that lacks its ticker.
ApiMsgs ==
  {[BaseMsg EXCEPT !.id = v] : v \in Tickers \cup {NoneStr}}
  \cup {[BaseMsg EXCEPT !.timestamp = UnixEpochDay + 1, !.price = 8]}

InitApi == Init /\ module = "api"

RecordTickApi == \E msg \in ApiMsgs : on_new_msg(msg)

NextApi == RecordTickApi \/ periodic_save \/ Restart \/ Query

SpecApi == InitApi /\ [][NextApi]_vars

\* ------------------------------------------------- statement by statement
\* One process of analysis_data.py or api.py, a step per statement on the
\* shared module-level conn and cursor.  The main thread runs the feed
\* callback until YLiveTicker returns and then (api.py) serves requests; the
\* periodic thread runs save_minute_bars; a Flask handler thread runs
\* get_minute_bars.  Every execute on the shared cursor replaces the result
\* set pending on it, and fetchall() returns and clears whatever is pending.

\* The feed messages here: the two tickers, and a message without ticker.
ConcMsgs == {[BaseMsg EXCEPT !.id = v] : v \in Tickers \cup {NoneStr}}

\* The requests here: the base request, and one without end_time.
ConcRequests == {BaseReq, [BaseReq EXCEPT !.end_time = Absent]}

\* One row of the result of the per-minute query: the strftime text and the
\* six aggregates of the group.
ResultRow(rows, ticker, minute) ==
  LET g == GroupRows(rows, ticker, minute)
  IN  [minute |-> minute,
       minPrice |-> SqlMin(Column(g, "price")),
       maxPrice |-> SqlMax(Column(g, "price")),
       firstPrice |-> SqlFirst(Column(g, "price")),
       lastPrice |-> SqlLast(Column(g, "price")),
       volume |-> SqlSum(Column(g, "volume")),
       dayVolume |-> SqlSum(Column(g, "dayVolume"))]

\* The result of the per-minute query of a ticker, in the order of the key.
RECURSIVE Results(_, _, _)
Results(rows, ticker, minutes) ==
  IF minutes = {} THEN <<>>
  ELSE <<ResultRow(rows, ticker, SetMin(minutes))>>
       \o Results(rows, ticker, minutes \ {SetMin(minutes)})

\* The row save_minute_bars INSERTs for a result row.
BarOf(ticker, result) ==
  [ticker |-> ticker, exchange |-> "SET",
   minPrice |-> result.minPrice, maxPrice |-> result.maxPrice,
   firstPrice |-> result.firstPrice, lastPrice |-> result.lastPrice,
   timestamp |-> mktime(result.minute),
   volume |-> result.volume, dayVolume |-> result.dayVolume]

\* An exception leaves save_minute_bars and periodic_save: the execution is
\* over and the periodic thread ends.
Raise(err) ==
  /\ thread' = err
  /\ running' = running - 1
  /\ agg' = AggIdle
  /\ last' = [NoOut EXCEPT !.op = "aggregate", !.err = err]

\* Variant: a timer starts a run every minute whether or not the run before
\* has returned.
PreviousReturned_Timer == running < 2

\* The loop of periodic_save calls save_minute_bars, waits for it to return,
\* sleeps and only then calls again; the module starts one such thread.
PreviousReturned == running = 0

\* periodic_save calls save_minute_bars, which reads the clock and executes
\* SELECT DISTINCT ticker.  In analysis_data.py the execute raises
\* sqlite3.ProgrammingError (connection of another thread) and leaves the
\* cursor as it is.
periodic_save_call ==
  /\ thread = "running"
  /\ PreviousReturned
  /\ IF module = "analysis_data"
     THEN /\ thread' = "ProgrammingError"
          /\ last' = [NoOut EXCEPT !.op = "aggregate",
                                   !.err = "ProgrammingError"]
          /\ UNCHANGED <<cursor, running, agg>>
     ELSE /\ cursor' = [kind |-> "tickers",
                        rows |-> DistinctTickers(TickPrices, {})]
          /\ running' = running + 1
          /\ agg' = [AggIdle EXCEPT !.pc = "fetch_tickers"]
          /\ UNCHANGED <<thread, last>>
  /\ UNCHANGED <<module, sqlHasFirstLast, TickPrices, OneMinBars, main,
                 handler, uncommitted>>

\* tickers = cursor.fetchall(): the rows pending on the cursor, whoever
\* executed last; of a row of another statement the loop reads column 0.
agg_fetch_tickers ==
  /\ agg.pc = "fetch_tickers"
  /\ agg' = [agg EXCEPT
               !.pc = "for_ticker",
               !.tickers = CASE cursor.kind = "tickers" -> cursor.rows
                             [] cursor.kind = "bars" -> Column(cursor.rows, "ticker")
                             [] OTHER -> <<>>]
  /\ cursor' = NoResult
  /\ UNCHANGED <<module, sqlHasFirstLast, TickPrices, OneMinBars, thread,
                 last, running, main, handler, uncommitted>>

\* for ticker_tuple in tickers: the end of the list returns from
\* save_minute_bars; otherwise the per-minute query of the next ticker is
\* executed (it fails to prepare where FIRST and LAST are unknown).
agg_for_ticker ==
  /\ agg.pc = "for_ticker"
  /\ IF agg.tickers = <<>>
     THEN /\ running' = running - 1
          /\ agg' = AggIdle
          /\ last' = [NoOut EXCEPT !.op = "aggregate"]
          /\ UNCHANGED <<cursor, thread>>
     ELSE IF ~sqlHasFirstLast
     THEN /\ Raise("OperationalError")
          /\ cursor' = NoResult
     ELSE /\ cursor' = [kind |-> "groups",
                        rows |-> Results(TickPrices, Head(agg.tickers),
                                         Minutes(TickPrices, Head(agg.tickers)))]
          /\ agg' = [agg EXCEPT !.pc = "fetch_results",
                                !.ticker = Head(agg.tickers),
                                !.tickers = Tail(agg.tickers)]
          /\ UNCHANGED <<running, thread, last>>
  /\ UNCHANGED <<module, sqlHasFirstLast, TickPrices, OneMinBars, main,
                 handler, uncommitted>>

\* results = cursor.fetchall(), and the unpacking of the first row into
\* seven names: a row of another statement has eight columns or one
\* (ValueError).
agg_fetch_results ==
  /\ agg.pc = "fetch_results"
  /\ cursor' = NoResult
  /\ IF cursor.kind \in {"bars", "tickers"} /\ cursor.rows # <<>>
     THEN Raise("ValueError")
     ELSE /\ agg' = [agg EXCEPT
                       !.pc = "for_result",
                       !.results = IF cursor.kind = "groups"
                                   THEN cursor.rows ELSE <<>>]
          /\ UNCHANGED <<running, thread, last>>
  /\ UNCHANGED <<module, sqlHasFirstLast, TickPrices, OneMinBars, main,
                 handler, uncommitted>>

\* for result in results: the end of the rows goes on to the next ticker;
\* otherwise the stamp is converted and the bar is INSERTed.
agg_for_result ==
  /\ agg.pc = "for_result"
  /\ IF agg.results = <<>>
     THEN /\ agg' = [agg EXCEPT !.pc = "for_ticker"]
          /\ UNCHANGED <<cursor, OneMinBars, uncommitted, running, thread, last>>
     ELSE IF strptimeError(Head(agg.results).minute) # "none"
     THEN /\ Raise(strptimeError(Head(agg.results).minute))
          /\ UNCHANGED <<cursor, OneMinBars, uncommitted>>
     ELSE /\ Len(OneMinBars) < MaxBars
          /\ OneMinBars' = Append(OneMinBars, BarOf(agg.ticker, Head(agg.results)))
          /\ uncommitted' = uncommitted + 1
          /\ cursor' = NoResult
          /\ agg' = [agg EXCEPT !.pc = "commit",
                                !.results = Tail(agg.results)]
          /\ UNCHANGED <<running, thread, last>>
  /\ UNCHANGED <<module, sqlHasFirstLast, TickPrices, main, handler>>

\* conn.commit() after the INSERT of a bar.
agg_commit ==
  /\ agg.pc = "commit"
  /\ uncommitted' = 0
  /\ agg' = [agg EXCEPT !.pc = "for_result"]
  /\ UNCHANGED <<module, sqlHasFirstLast, TickPrices, OneMinBars, thread,
                 last, cursor, running, main, handler>>

\* on_new_msg on the main thread: the INSERT of save_to_db on the shared
\* cursor; a failed INSERT is logged and not committed.
save_to_db_execute(msg) ==
  /\ main = "feed"
  /\ save_to_db(msg)
  /\ cursor' = NoResult
  /\ main' = IF NotNullViolated(msg) THEN "feed" ELSE "commit"
  /\ UNCHANGED <<module, sqlHasFirstLast, OneMinBars, thread, running, agg,
                 handler, uncommitted>>

\* conn.commit() of save_to_db: commits whatever the connection has pending.
save_to_db_commit ==
  /\ main = "commit"
  /\ main' = "feed"
  /\ uncommitted' = 0
  /\ UNCHANGED <<module, sqlHasFirstLast, TickPrices, OneMinBars, thread,
                 last, cursor, running, agg, handler>>

\* YLiveTicker returns (the feed closed); api.py goes on to app.run.
YLiveTicker_returns ==
  /\ module = "api"
  /\ main = "feed"
  /\ main' = "serve"
  /\ UNCHANGED <<module, sqlHasFirstLast, TickPrices, OneMinBars, thread,
                 last, cursor, running, agg, handler, uncommitted>>

\* get_minute_bars up to its cursor.execute: 400 without SQL, or the SELECT
\* on the shared cursor, which sees the rows the connection has INSERTed.
get_minute_bars_execute(req) ==
  /\ module = "api"
  /\ main = "serve"
  /\ handler.pc = "idle"
  /\ IF MissingParameters(req.ticker, ArgInt(req.start_time), ArgInt(req.end_time))
     THEN /\ last' = Response(req)
          /\ UNCHANGED <<cursor, handler>>
     ELSE /\ cursor' = [kind |-> "bars",
                        rows |-> SelectBars(OneMinBars, req.ticker,
                                            ArgInt(req.start_time),
                                            ArgInt(req.end_time))]
          /\ handler' = [pc |-> "fetch", req |-> req]
          /\ UNCHANGED last
  /\ UNCHANGED <<module, sqlHasFirstLast, TickPrices, OneMinBars, thread,
                 running, agg, main, uncommitted>>

\* rows = cursor.fetchall() and the response: 404 for no row; the loop reads
\* row[7], which a row of another statement does not have (IndexError, 500).
get_minute_bars_fetchall ==
  /\ handler.pc = "fetch"
  /\ cursor' = NoResult
  /\ handler' = HandlerIdle
  /\ last' = IF cursor.rows = <<>>
             THEN [NoOut EXCEPT !.op = "query", !.req = handler.req,
                                !.status = 404]
             ELSE IF cursor.kind # "bars"
             THEN [NoOut EXCEPT !.op = "query", !.req = handler.req,
                                !.status = 500, !.err = "IndexError"]
             ELSE [NoOut EXCEPT !.op = "query", !.req = handler.req,
                                !.status = 200, !.rows = cursor.rows]
  /\ UNCHANGED <<module, sqlHasFirstLast, TickPrices, OneMinBars, thread,
                 running, agg, main, uncommitted>>

RecordTickConc == \E msg \in ConcMsgs : save_to_db_execute(msg)

QueryConc == \E req \in ConcRequests : get_minute_bars_execute(req)

NextConc ==
  \/ RecordTickConc \/ save_to_db_commit \/ YLiveTicker_returns
  \/ periodic_save_call \/ agg_fetch_tickers \/ agg_for_ticker
  \/ agg_fetch_results \/ agg_for_result \/ agg_commit
  \/ QueryConc \/ get_minute_bars_fetchall

SpecConc == Init /\ [][NextConc]_vars

\* ---------------------------------------------------------------- claims
BarKey(bar) == <<bar.ticker, bar.exchange, bar.timestamp>>

BucketTicks(rows, bar) ==
  LET InBucket(r) ==
        /\ r.ticker = bar.ticker
        /\ r.exchange = bar.exchange
        /\ (r.timestamp \div 60) * 60 = bar.timestamp
  IN  SelectSeq(rows, InBucket)

\* Index of the earliest tick (the first to arrive among equals) and of the
\* latest tick (the last to arrive among equals) of a non-empty bucket.
EarliestTick(b) ==
  CHOOSE i \in 1..Len(b) :
    \A j \in 1..Len(b) :
      \/ b[i].timestamp < b[j].timestamp
      \/ b[i].timestamp = b[j].timestamp /\ i <= j

LatestTick(b) ==
  CHOOSE i \in 1..Len(b) :
    \A j \in 1..Len(b) :
      \/ b[i].timestamp > b[j].timestamp
      \/ b[i].timestamp = b[j].timestamp /\ i >= j

BucketCorrect(bar, rows) ==
  LET b == BucketTicks(rows, bar)
  IN  /\ b # <<>>
      /\ \A i \in 1..Len(b) : bar.minPrice <= b[i].price
      /\ \E i \in 1..Len(b) : bar.minPrice = b[i].price
      /\ \A i \in 1..Len(b) : bar.maxPrice >= b[i].price
      /\ \E i \in 1..Len(b) : bar.maxPrice = b[i].price
      /\ bar.firstPrice = b[EarliestTick(b)].price
      /\ bar.lastPrice = b[LatestTick(b)].price
      /\ bar.volume = SumNonNull(Column(b, "volume"))
      /\ bar.dayVolume = SumNonNull(Column(b, "dayVolume"))

Parsed(req) ==
  /\ req.ticker # NoneStr
  /\ req.start_time.kind = "int"
  /\ req.end_time.kind = "int"

WellFormed(req) ==
  /\ Parsed(req)
  /\ req.ticker # ""
  /\ req.start_time.value <= req.end_time.value

\* The window starts of the stored bars of the requested ticker that lie in
\* the requested range.
StartsInRange(req) ==
  {OneMinBars[i].timestamp : i \in
     {j \in 1..Len(OneMinBars) :
        /\ OneMinBars[j].ticker = req.ticker
        /\ req.start_time.value <= OneMinBars[j].timestamp
        /\ OneMinBars[j].timestamp <= req.end_time.value}}

C5_MalformedRejected ==
  (last.op = "query" /\ ~Parsed(last.req)) => last.status = 400

C5_Witness ==
  /\ last.op = "query"
  /\ last.req.end_time = Absent
  /\ last.req.ticker \in Tickers
  /\ last.req.start_time.kind = "int"
  /\ last.status = 400
  /\ OneMinBars # <<>>

\* C6: a well-formed query is never answered 400; it is answered 200 when a
\* bar is in range and 404 when none is.
C6_WellFormedAnswered ==
  (last.op = "query" /\ WellFormed(last.req))
    => /\ last.status # 400
       /\ last.status = (IF StartsInRange(last.req) # {} THEN 200 ELSE 404)

\* C7: a query with start_time > end_time, or with an empty ticker, fails as
\* an invalid argument (400), not with the outcome of an empty range (404).
C7_InvalidArgumentDistinct ==
  (last.op = "query" /\ Parsed(last.req) /\ ~WellFormed(last.req))
    => last.status = 400

\* C8: a query leaves TickPrices and OneMinBars as they were.
C8_QueryReadOnly ==
  [][last'.op = "query"
       => TickPrices' = TickPrices /\ OneMinBars' = OneMinBars]_vars

C8_Witness ==
  /\ last.op = "query"
  /\ last.status = 200
  /\ Len(TickPrices) >= 2
  /\ Len(OneMinBars) >= 2

\* A tick lacking a required field, or carrying a price that is no number.
InvalidTick(msg) ==
  \/ msg.id = NoneStr
  \/ msg.exchange = NoneStr
  \/ msg.price = None
  \/ msg.timestamp = None
  \/ msg.price = TextPrice

\* C9: recording a tick whose ticker, exchange, price or timestamp is absent
\* or of the wrong type adds no row, changes no row and reports the failure.
C9_InvalidTickDropped ==
  [][\A msg \in Msgs :
       (on_new_msg(msg) /\ InvalidTick(msg))
         => TickPrices' = TickPrices /\ last'.err # "none"]_vars

\* C10: no step removes or changes a row of TickPrices, and recording a tick
\* that has its required fields appends exactly one row with the fields of
\* the tick, also when an equal row is stored already.
C10_AppendOnly ==
  [][/\ Len(TickPrices') >= Len(TickPrices)
     /\ \A i \in 1..Len(TickPrices) : TickPrices'[i] = TickPrices[i]
     /\ \A msg \in ApiMsgs :
          (/\ on_new_msg(msg)
           /\ msg.id # NoneStr /\ msg.exchange # NoneStr
           /\ msg.price # None /\ msg.timestamp # None)
            => /\ Len(TickPrices') = Len(TickPrices) + 1
               /\ LET row == TickPrices'[Len(TickPrices')]
                  IN  /\ row.ticker = msg.id
                      /\ row.exchange = msg.exchange
                      /\ row.price = msg.price
                      /\ row.timestamp = msg.timestamp
                      /\ row.volume = msg.volume
                      /\ row.dayVolume = msg.dayVolume]_vars

C10_Witness ==
  /\ \E i, j \in 1..Len(TickPrices) : i < j /\ TickPrices[i] = TickPrices[j]
  /\ OneMinBars # <<>>
  /\ last.op = "query"

\* The stored ticks whose group of the per-minute query is stamped as the
\* bar is: the ticks a bar of this ticker and timestamp was computed from.
FoldedTicks(rows, bar) ==
  LET InGroupOf(r) ==
        /\ r.ticker = bar.ticker
        /\ strptimeError(strftime(r.timestamp)) = "none"
        /\ mktime(strftime(r.timestamp)) = bar.timestamp
  IN  SelectSeq(rows, InGroupOf)

\* The watermark of a ticker: the greatest timestamp of a stored tick that
\* a stored bar incorporates, None (below every timestamp) when there is
\* none.
Watermark(rows, bars, ticker) ==
  LET done == {rows[i].timestamp : i \in
                 {j \in 1..Len(rows) :
                    /\ rows[j].ticker = ticker
                    /\ \E k \in 1..Len(bars) :
                         \E m \in 1..Len(FoldedTicks(rows, bars[k])) :
                           FoldedTicks(rows, bars[k])[m] = rows[j]}}
  IN  IF done = {} THEN None
      ELSE CHOOSE w \in done : \A x \in done : x <= w

SpecLive ==
  Init /\ [][Next]_vars /\ WF_vars(periodic_save) /\ WF_vars(Restart)

\* A bar of the ticker of the tick stands at the start of the minute of the
\* tick, or at the stamp save_minute_bars gives the group of the tick.
Reflected(tick) ==
  \E k \in 1..Len(OneMinBars) :
    /\ OneMinBars[k].ticker = tick.ticker
    /\ \/ OneMinBars[k].timestamp = (tick.timestamp \div 60) * 60
       \/ /\ strptimeError(strftime(tick.timestamp)) = "none"
          /\ OneMinBars[k].timestamp = mktime(strftime(tick.timestamp))

\* The next run would write more bars than the model keeps.
BarsAtBound == Len(save_minute_bars.bars) > MaxBars

\* C13: where the timer keeps firing and a process that ended is started
\* again, every stored tick is eventually reflected in a bar of its bucket.
C13_NoDataLoss ==
  \A i \in 1..MaxTicks :
    (Len(TickPrices) >= i)
      ~> (Len(TickPrices) >= i /\ (Reflected(TickPrices[i]) \/ BarsAtBound))

BucketRows(bar) ==
  LET SameBucket(b) == b.ticker = bar.ticker /\ b.timestamp = bar.timestamp
  IN  SelectSeq(OneMinBars, SameBucket)

Processable(ticker) ==
  /\ sqlHasFirstLast
  /\ Minutes(TickPrices, ticker) # {}
  /\ \A minute \in Minutes(TickPrices, ticker) :
       strptimeError(minute) = "none"

\* C17: when the work on one ticker raises during an aggregator run, the
\* bars written before stay, every ticker that can be processed has its
\* bars written by the run, and the periodic thread goes on running.
C17_ErrorIsolation ==
  [][(last'.op = "aggregate"
        /\ last'.err \in {"OperationalError", "TypeError", "ValueError"})
       => /\ thread' = "running"
          /\ Len(OneMinBars') >= Len(OneMinBars)
          /\ \A i \in 1..Len(OneMinBars) : OneMinBars'[i] = OneMinBars[i]
          /\ \A t \in Tickers :
               Processable(t)
                 => \E i \in (Len(OneMinBars) + 1)..Len(OneMinBars') :
                      OneMinBars'[i].ticker = t]_vars

\* C18: in every reachable state at most one execution of save_minute_bars
\* is in progress in the process; a run starts only when none is.
C18_SingleRun == running <= 1

C18_Witness ==
  /\ running = 1
  /\ agg.pc = "fetch_results"
  /\ last.op = "aggregate"
  /\ last.err = "none"
  /\ OneMinBars # <<>>

CommittedBars == SubSeq(OneMinBars, 1, Len(OneMinBars) - uncommitted)

====
